---- MODULE Spec2Model ----
(***************************************************************************)
(* Model of the Sankey data preparation of app.py (section 4, "Work Hours  *)
(* vs Stress"): the module-level configuration, the loaded worklife table  *)
(* and prepare_sankey_data(grouped), which reads the table, writes three   *)
(* of its columns and returns the node/link lists handed to go.Sankey.     *)
(*                                                                         *)
(* The pandas calls the function makes (pd.cut, pd.Categorical,            *)
(* Series.unique, groupby(...).size(), .cat.codes) are modelled by what    *)
(* they compute on columns.  A table is a function from column names to    *)
(* columns.  A plain column is its dtype and its values; a categorical     *)
(* column is, as in pandas, its categories and one code per row: the       *)
(* 0-based position of the row's value in the categories, -1 for NaN.      *)
(* Work_Hours holds whole numbers of hours and has no missing value.       *)
(***************************************************************************)
EXTENDS Integers, Sequences, FiniteSets, TLC

VARIABLES
    worklife_df,           \* the table returned by load_data(), app.py:25
    stress_level_order,    \* app.py:142
    stress_color_mapping,  \* app.py:145-149
    observed,              \* groupby's observed= default, which the call at app.py:169
                           \* leaves to the installed pandas: FALSE before 3.0, TRUE since
    last,                  \* the latest call: [arg, ret], or NoCall
    prev                   \* the call before it

vars == <<worklife_df, stress_level_order, stress_color_mapping, observed, last, prev>>

----------------------------------------------------------------------------
(* Bounds of the model *)

MaxRecords == 2

HoursDomain == {0, 10, 11, 100, 101}

StressDomain == {"Low", "Medium", "High", "Severe"}

----------------------------------------------------------------------------
(* Helpers *)

Range(s) == {s[i] : i \in 1..Len(s)}

RECURSIVE SortedSeq(_)
SortedSeq(S) ==
    IF S = {} THEN <<>>
    ELSE LET m == CHOOSE x \in S : \A y \in S : x <= y
         IN  <<m>> \o SortedSeq(S \ {m})

\* 1-based position of v in the sequence s, 0 when absent
IndexOf(s, v) ==
    IF \E k \in 1..Len(s) : s[k] = v
    THEN CHOOSE k \in 1..Len(s) : s[k] = v /\ \A j \in 1..(k - 1) : s[j] # v
    ELSE 0

\* The sequence s as an explicit tuple: TLC otherwise keeps [i \in 1..n |-> e]
\* as an expression and evaluates e again at every application.
Tuple(s) == s \o <<>>

\* A column of dtype int64 or object
Plain(dtype, values) ==
    [dtype |-> dtype, values |-> values, codes |-> <<>>, categories |-> <<>>]

\* A column of dtype category
Cat(codes, categories) ==
    [dtype |-> "category", values |-> <<>>, codes |-> Tuple(codes),
     categories |-> categories]

NRows(col) == IF col.dtype = "category" THEN Len(col.codes) ELSE Len(col.values)

IsNA(col, i) == col.dtype = "category" /\ col.codes[i] = -1

\* The value of row i of a column, for a row that is not NaN
At(col, i) ==
    IF col.dtype = "category" THEN col.categories[col.codes[i] + 1] ELSE col.values[i]

\* df[name] = col
SetColumn(df, name, col) == (name :> col) @@ df

NoCall == [arg |-> "none", ret |-> "none"]

----------------------------------------------------------------------------
(* Module-level configuration *)

StressLevelOrderSrc == <<"Low", "Medium", "High">>

StressColorMappingSrc ==
    ("Low Stress" :> "#7ED957") @@ ("Medium Stress" :> "#FFC107")
        @@ ("High Stress" :> "#FF4C4C")

stress_level_labels == [k \in 1..Len(stress_level_order) |-> stress_level_order[k] \o " Stress"]

bins == <<0, 10, 20, 30, 40, 50, 60, 70, 80, 90, 100>>

bin_labels ==
    <<"0-10", "11-20", "21-30", "31-40", "41-50", "51-60", "61-70", "71-80", "81-90", "91-100">>

----------------------------------------------------------------------------
(* pandas, as far as prepare_sankey_data uses it *)

\* numpy searchsorted(a, v, side='left') on the sorted sequence a: the number
\* of elements of a that are < v.
searchsorted_left(a, v) == Cardinality({k \in 1..Len(a) : a[k] < v})

\* searchsorted(a, v, side='right'): the number of elements of a that are <= v.
searchsorted_right(a, v) == Cardinality({k \in 1..Len(a) : a[k] <= v})

\* Mutant of pd_cut: pd.cut(..., right=False), intervals closed on the left.
pd_cut_left(x, b, l) ==
    Cat([i \in 1..NRows(x) |->
            IF IsNA(x, i) THEN -1
            ELSE LET ids == searchsorted_right(b, At(x, i))
                 IN  IF ids = 0 \/ ids = Len(b) THEN -1 ELSE ids - 1],
        l)

\* pd.cut(x, bins=b, labels=l, right=True), include_lowest left at its default
\* False: a categorical column with categories l, where value v gets label
\* l[k] when b[k] < v <= b[k+1] and NaN when it is in no interval.
\* After an ungrouped call Work_Hours is categorical; numpy's searchsorted
\* converts it to its values, so the column is read through At.
pd_cut(x, b, l) ==
    Cat([i \in 1..NRows(x) |->
            IF IsNA(x, i) THEN -1
            ELSE LET ids == searchsorted_left(b, At(x, i))
                 IN  IF ids = 0 \/ ids = Len(b) THEN -1 ELSE ids - 1],
        l)

\* pd.Categorical(x, categories=categories, ordered=True): a value that is no
\* category becomes NaN.
pd_Categorical(x, categories) ==
    Cat([i \in 1..NRows(x) |->
            IF IsNA(x, i) THEN -1 ELSE IndexOf(categories, At(x, i)) - 1],
        categories)

\* Mutant of unique: the codes of a categorical column instead of its values.
unique_codes(col) ==
    IF col.dtype = "category"
    THEN {col.codes[i] : i \in {j \in 1..NRows(col) : ~IsNA(col, j)}}
    ELSE {At(col, i) : i \in 1..NRows(col)}

\* Series.unique(): the distinct values of the column, whatever its dtype.
unique(col) == {At(col, i) : i \in {j \in 1..NRows(col) : ~IsNA(col, j)}}

\* Mutant of cat_codes: .astype('category') deriving the categories from the
\* values present instead of keeping the column's categories.
cat_codes_observed(col) ==
    LET present == SelectSeq(col.categories, LAMBDA c : c \in unique(col))
    IN  [i \in 1..NRows(col) |->
            IF IsNA(col, i) THEN -1 ELSE IndexOf(present, At(col, i)) - 1]

\* col.astype('category').cat.codes: the column is categorical already, so the
\* cast keeps its categories, and the codes are the column's own.
cat_codes(col) == col.codes

\* Mutant of GroupSize: rows counted by the first key alone.
GroupSizeFirstKey(c1, c2, a, b) ==
    Cardinality({i \in 1..NRows(c1) : c1.codes[i] = a})

\* The size of the group of the categories with codes a and b: the rows
\* whose keys have these codes.  A row with a NaN key (code -1) is in no
\* group (dropna=True).
GroupSize(c1, c2, a, b) ==
    Cardinality({i \in 1..NRows(c1) : c1.codes[i] = a /\ c2.codes[i] = b})

\* df.groupby([k1, k2]).size().reset_index(name='count') for two categorical
\* keys: the groups in category order (sort=True), k1 major.  With
\* observed=False every pair of categories is a row, empty groups with count
\* 0; with observed=True only the pairs that occur.
groupby_size(df, k1, k2, obs) ==
    LET c1   == df[k1]
        c2   == df[k2]
        n2   == Len(c2.categories)
        all  == [p \in 1..(Len(c1.categories) * n2) |->
                    LET a == (p - 1) \div n2
                        b == (p - 1) % n2
                    IN  [a |-> a, b |-> b, count |-> GroupSize(c1, c2, a, b)]]
        rows == IF obs THEN SelectSeq(all, LAMBDA r : r.count > 0) ELSE Tuple(all)
    IN  [key1  |-> Cat([e \in 1..Len(rows) |-> rows[e].a], c1.categories),
         key2  |-> Cat([e \in 1..Len(rows) |-> rows[e].b], c2.categories),
         count |-> [e \in 1..Len(rows) |-> rows[e].count]]

----------------------------------------------------------------------------
(* prepare_sankey_data(grouped), statement by statement *)

source_col(grouped) == IF grouped THEN "Work_Hours_Grouped" ELSE "Work_Hours"

\* The table after the first statement of the taken branch: the grouped
\* branch writes the column Work_Hours_Grouped, the other writes nothing.
AfterCut(df, grouped) ==
    IF grouped
    THEN SetColumn(df, "Work_Hours_Grouped", pd_cut(df["Work_Hours"], bins, bin_labels))
    ELSE df

sorted_hours(df, grouped) ==
    IF grouped THEN bin_labels ELSE SortedSeq(unique(df["Work_Hours"]))

\* f"{label} Hours" and f"{int(hour)} Hours": hours are whole numbers here, so
\* int() changes nothing and the number is printed in decimal.
work_hours_labels(df, grouped) ==
    LET sh == sorted_hours(df, grouped)
    IN  [k \in 1..Len(sh) |->
            (IF grouped THEN sh[k] ELSE ToString(sh[k])) \o " Hours"]

\* Mutant of Labels: the stress nodes before the hour nodes.
LabelsStressFirst(whl) == stress_level_labels \o whl

Labels(whl) == whl \o stress_level_labels

\* The table after the two pd.Categorical assignments.
AfterCategoricals(df, grouped) ==
    LET df1 == AfterCut(df, grouped)
        df2 == SetColumn(df1, source_col(grouped),
                         pd_Categorical(df1[source_col(grouped)], sorted_hours(df, grouped)))
    IN  SetColumn(df2, "Stress_Level_Sorted",
                  pd_Categorical(df2["Stress_Level"], stress_level_order))

value_counts(df3, grouped) ==
    groupby_size(df3, source_col(grouped), "Stress_Level_Sorted", observed)

source_codes(vc) == cat_codes(vc.key1)

\* Mutant of target_codes: the offset by the number of hour nodes forgotten.
target_codes_no_offset(vc, sh) == cat_codes(vc.key2)

target_codes(vc, sh) ==
    LET codes == cat_codes(vc.key2)
    IN  [e \in 1..Len(codes) |-> codes[e] + Len(sh)]

\* The if / elif / else chain of the loop over value_counts['Stress_Level_Sorted']
link_color(stress) ==
    IF stress = "Low" THEN "rgba(126,217,87,0.5)"
    ELSE IF stress = "Medium" THEN "rgba(255,193,7,0.5)"
    ELSE "rgba(255,76,76,0.5)"

link_colors(vc) == [e \in 1..NRows(vc.key2) |-> link_color(At(vc.key2, e))]

work_hours_colors(whl) == [k \in 1..Len(whl) |-> "#4A90E2"]

\* stress_color_mapping[label] raises KeyError for a label that is no key
StressColorsRaise == \E k \in 1..Len(stress_level_labels) :
    stress_level_labels[k] \notin DOMAIN stress_color_mapping

stress_colors ==
    [k \in 1..Len(stress_level_labels) |-> stress_color_mapping[stress_level_labels[k]]]

node_colors(whl) == work_hours_colors(whl) \o stress_colors

Raised(error) ==
    [status |-> error, labels |-> <<>>, node_colors |-> <<>>, source |-> <<>>,
     target |-> <<>>, value |-> <<>>, link_colors |-> <<>>]

\* What one call does: the table it leaves in worklife_df, and what it returns
\* (or the exception it raises, which leaves the columns already written).
prepare_sankey_data(df, grouped) ==
    LET whl == work_hours_labels(df, grouped)
        sh  == sorted_hours(df, grouped)
        df3 == AfterCategoricals(df, grouped)
        vc  == value_counts(df3, grouped)
    IN  [df  |-> df3,
         ret |-> IF StressColorsRaise THEN Raised("KeyError")
                 ELSE [status      |-> "ok",
                       labels      |-> Labels(whl),
                       node_colors |-> node_colors(whl),
                       source      |-> source_codes(vc),
                       target      |-> target_codes(vc, sh),
                       value       |-> vc.count,
                       link_colors |-> link_colors(vc)]]

----------------------------------------------------------------------------
(* The state machine *)

\* The tables load_data() returns here: 1..MaxRecords rows, each a number of
\* hours (on, inside and outside the bin edges) and a stress label ("Severe"
\* is a label outside the order Low, Medium, High of the source).
Tables ==
    UNION {[1..n -> HoursDomain \X StressDomain] : n \in 1..MaxRecords}

load_data(t) ==
    ("Work_Hours" :> Plain("int64", [i \in 1..Len(t) |-> t[i][1]]))
        @@ ("Stress_Level" :> Plain("object", [i \in 1..Len(t) |-> t[i][2]]))

InitData ==
    /\ \E t \in Tables : worklife_df = load_data(t)
    /\ observed \in BOOLEAN
    /\ last = NoCall
    /\ prev = NoCall

\* The program as written: the configuration of app.py:142-149.
Init ==
    /\ InitData
    /\ stress_level_order = StressLevelOrderSrc
    /\ stress_color_mapping = StressColorMappingSrc

\* The configurations the category order and the colour map are drawn from
\* when the function is checked as a function of its configuration too.
OrderChoices == {StressLevelOrderSrc, StressLevelOrderSrc \o <<"Severe">>}

MappingChoices ==
    {StressColorMappingSrc,
     ("Severe Stress" :> "#8B0000") @@ StressColorMappingSrc,
     [l \in {"Low Stress", "Medium Stress"} |-> StressColorMappingSrc[l]]}

InitCfg ==
    /\ InitData
    /\ stress_level_order \in OrderChoices
    /\ stress_color_mapping \in MappingChoices

Call(grouped) ==
    LET r == prepare_sankey_data(worklife_df, grouped)
    IN  /\ worklife_df' = r.df
        /\ last' = [arg |-> IF grouped THEN "grouped" ELSE "ungrouped", ret |-> r.ret]
        /\ prev' = last
        /\ UNCHANGED <<stress_level_order, stress_color_mapping, observed>>

CallGrouped == Call(TRUE)

CallUngrouped == Call(FALSE)

Next == CallGrouped \/ CallUngrouped

Spec == Init /\ [][Next]_vars

SpecCfg == InitCfg /\ [][Next]_vars

----------------------------------------------------------------------------
(* Vocabulary of the properties: the records as loaded, and the latest call *)

NumRecords == NRows(worklife_df["Stress_Level"])

\* Work_Hours and Stress_Level of record i.  No call changes the value of a
\* Work_Hours cell, only the dtype of the column.
Hours(i) == At(worklife_df["Work_Hours"], i)

Stress(i) == worklife_df["Stress_Level"].values[i]

R == last.ret

Returned == last.arg # "none" /\ R.status = "ok"

ReturnedGrouped == last.arg = "grouped" /\ R.status = "ok"

Edges == 1..Len(R.source)

bucket_count == Len(bin_labels)

category_count == Len(StressLevelOrderSrc)

\* Bucket b (1-based) as pd.cut defines it: bins[b] < h <= bins[b+1]
InBucket(h, b) == bins[b] < h /\ h <= bins[b + 1]

InSomeBucket(h) == \E b \in 1..bucket_count : InBucket(h, b)

\* The records of bucket b whose label is the c-th of the fixed order
PairCount(b, c) ==
    Cardinality({i \in 1..NumRecords :
                    InBucket(Hours(i), b) /\ Stress(i) = StressLevelOrderSrc[c]})

RECURSIVE SumSeq(_)
SumSeq(s) == IF s = <<>> THEN 0 ELSE Head(s) + SumSeq(Tail(s))

\* The edge e is the edge of bucket b and category c
EdgeOf(e, b, c) == R.source[e] = b - 1 /\ R.target[e] = bucket_count + (c - 1)

----------------------------------------------------------------------------
(* Properties *)

C3_NodeList ==
    ReturnedGrouped =>
        /\ Len(R.labels) = bucket_count + category_count
        /\ Len(R.node_colors) = Len(R.labels)
        /\ DOMAIN R.labels = 1..(10 + 3)
        /\ \A k \in 1..bucket_count : R.labels[k] = bin_labels[k] \o " Hours"
        /\ \A k \in 1..category_count :
              R.labels[bucket_count + k] = StressLevelOrderSrc[k] \o " Stress"

\* C3 witness: a grouped call has returned.
C3_Witness == ReturnedGrouped /\ Len(R.labels) = 13 /\ R.labels[11] = "Low Stress"

\* C4: every edge prepare_sankey_data returns, grouped or not, has its source
\* among the hour nodes (0 <= source < number of hour nodes) and its target
\* among the stress nodes (number of hour nodes <= target < node count).
C4_EdgeRanges ==
    Returned =>
        LET hour_nodes == IF last.arg = "grouped" THEN bucket_count
                          ELSE Cardinality({Hours(i) : i \in 1..NumRecords})
        IN  /\ Len(R.labels) = hour_nodes + category_count
            /\ \A e \in Edges :
                  /\ 0 <= R.source[e] /\ R.source[e] < hour_nodes
                  /\ hour_nodes <= R.target[e] /\ R.target[e] < Len(R.labels)

\* C4 witness: an ungrouped call after a grouped one, both with edges.
C4_Witness ==
    /\ Returned /\ last.arg = "ungrouped" /\ prev.arg = "grouped"
    /\ Len(R.source) > 0 /\ Len(prev.ret.source) > 0
    /\ \E e \in Edges : R.value[e] > 0

\* C5: prepare_sankey_data returns no edge of weight 0.
C5_NoZeroWeightEdge == Returned => \A e \in Edges : R.value[e] > 0

\* C6: after prepare_sankey_data(grouped=True) a record whose Work_Hours is a
\* bucket's upper bound (10, 20, ..., 100) has that bucket's label in
\* Work_Hours_Grouped and is counted in that bucket's edge; the edge of the
\* next bucket counts only the records above the bound.
C6_UpperBoundInBucket ==
    ReturnedGrouped =>
        \A i \in 1..NumRecords, b \in 1..bucket_count :
           Hours(i) = bins[b + 1] =>
              /\ ~IsNA(worklife_df["Work_Hours_Grouped"], i)
              /\ At(worklife_df["Work_Hours_Grouped"], i) = bin_labels[b]
              /\ \A c \in 1..category_count :
                    Stress(i) = StressLevelOrderSrc[c] =>
                       /\ \E e \in Edges :
                             /\ EdgeOf(e, b, c)
                             /\ R.value[e] >= Cardinality({j \in 1..NumRecords :
                                    Hours(j) = Hours(i) /\ Stress(j) = Stress(i)})
                       /\ \A e \in Edges :
                             (b < bucket_count /\ EdgeOf(e, b + 1, c)) =>
                                R.value[e] = Cardinality({j \in 1..NumRecords :
                                    /\ Hours(j) > bins[b + 1] /\ Hours(j) <= bins[b + 2]
                                    /\ Stress(j) = Stress(i)})

\* C6 witness: a grouped call on a record at 10 hours and a record at 11
\* hours with the same label: two edges, one per bucket.
C6_Witness ==
    /\ ReturnedGrouped
    /\ \E i, j \in 1..NumRecords :
          /\ Hours(i) = 10 /\ Hours(j) = 11
          /\ Stress(i) = "Medium" /\ Stress(j) = "Medium"
    /\ \E e1, e2 \in Edges :
          /\ EdgeOf(e1, 1, 2) /\ R.value[e1] = 1
          /\ EdgeOf(e2, 2, 2) /\ R.value[e2] = 1

\* C7: after prepare_sankey_data(grouped=True) a record whose Work_Hours is 0
\* has the label "0-10" in Work_Hours_Grouped, and, its label being in the
\* fixed order, the edge of the first bucket and its category counts it.
C7_ZeroInFirstBucket ==
    ReturnedGrouped =>
        \A i \in 1..NumRecords :
           Hours(i) = 0 =>
              /\ ~IsNA(worklife_df["Work_Hours_Grouped"], i)
              /\ \A c \in 1..category_count :
                    Stress(i) = StressLevelOrderSrc[c] =>
                       \E e \in Edges : EdgeOf(e, 1, c) /\ R.value[e] >= 1

C9_TableUnchanged == [][worklife_df' = worklife_df]_vars

\* C10: two calls in a row with the same argument return the same labels,
\* node colours, sources, targets, values and link colours.
C10_SameArgumentSameResult ==
    (last.arg # "none" /\ prev.arg = last.arg) => last.ret = prev.ret

\* C10 witness: two ungrouped calls in a row, the second one reading the
\* Work_Hours column the first one made categorical, with two hour nodes.
C10_Witness ==
    /\ last.arg = "ungrouped" /\ prev.arg = "ungrouped"
    /\ R.status = "ok" /\ Len(R.labels) = 2 + category_count
    /\ \E e \in Edges : R.value[e] > 0

====
